---- MODULE Spec2Model ----
(***************************************************************************)
(* tinypy: a lexer (src/tinypy/tokenizer.py), a recursive-descent parser   *)
(* (src/tinypy/parser.py) and a tree-walking interpreter                   *)
(* (src/tinypy/interpreter.py), plus the package entry point `run`         *)
(* (src/tinypy/__init__.py), which carries an older copy of the lexer.     *)
(*                                                                         *)
(* Source text is a sequence of one-character strings.  A Python exception *)
(* is modelled by its class name in an `err` field ("" = no exception);    *)
(* once set, the enclosing operators stop and hand the record back as it   *)
(* was at the raise.                                                       *)
(***************************************************************************)
EXTENDS Integers, Sequences, FiniteSets, TLC

VARIABLES
    input,      \* the source text handed to the entry point
    tokenizer,  \* the Tokenizer object
    interp,     \* the Interpreter object: values, functions, return_value
    output,     \* what has been printed to standard output
    history,    \* what the statement executed last did, in order
    executed,   \* how many top-level statements interpret() has executed
    pc,         \* where the entry point is
    error,      \* class name of the exception that ended the run, "" if none
    parser,     \* the Parser object, and the tree it has built
    result      \* what evaluate(source) returned

vars ==
    <<input, tokenizer, interp, output, history, executed, pc, error, parser,
      result>>

(***************************************************************************)
(* Bounds                                                                  *)
(***************************************************************************)
MaxLines == 3
MaxStmts == 6

(***************************************************************************)
(* Values.  One record shape for every Python value the language has:      *)
(* None, bool, int, float (an exact fraction n/d) and str.                 *)
(***************************************************************************)
NoneV == [t |-> "none", n |-> 0, d |-> 1, s |-> ""]
IntV(k) == [t |-> "int", n |-> k, d |-> 1, s |-> ""]
BoolV(b) == [t |-> "bool", n |-> IF b THEN 1 ELSE 0, d |-> 1, s |-> ""]
StrV(text) == [t |-> "str", n |-> 0, d |-> 1, s |-> text]

RECURSIVE Gcd(_, _)
Gcd(a, b) == IF b = 0 THEN a ELSE Gcd(b, a % b)

Abs(a) == IF a < 0 THEN -a ELSE a

FloatV(num, den) ==
    LET g == Gcd(Abs(num), den)
    IN  [t |-> "float", n |-> num \div g, d |-> den \div g, s |-> ""]

(***************************************************************************)
(* tokenizer.py                                                            *)
(***************************************************************************)
TokenKind ==
    { "LEFT_PAREN", "RIGHT_PAREN", "COLON", "EQUALS", "DOUBLE_EQUALS",
      "NOT_EQUALS", "PLUS", "STAR", "SLASH", "MINUS", "LESS_THAN", "ARROW",
      "NEWLINE", "INDENT", "DEDENT", "INT", "FLOAT", "STR", "IF", "ELIF",
      "ELSE", "AND", "OR", "IS", "NOT", "NONE", "PRINT", "DEF", "RETURN",
      "IDENTIFIER", "BOOL", "COMMENT", "EOF" }

KEYWORDS(text) ==
    CASE text = "int" -> "INT"
      [] text = "float" -> "FLOAT"
      [] text = "str" -> "STR"
      [] text = "print" -> "PRINT"
      [] text = "if" -> "IF"
      [] text = "else" -> "ELSE"
      [] text = "def" -> "DEF"
      [] text = "return" -> "RETURN"
      [] text = "bool" -> "BOOL"
      [] text = "True" -> "BOOL"
      [] text = "False" -> "BOOL"
      [] text = "and" -> "AND"
      [] text = "or" -> "OR"
      [] text = "is" -> "IS"
      [] text = "not" -> "NOT"
      [] text = "None" -> "NONE"
      [] OTHER -> "IDENTIFIER"

Token(kind, line, text, value) ==
    [kind |-> kind, line |-> line, text |-> text, value |-> value]

\* the value of a member of TokenKind
KindValue(kind) ==
    CASE kind = "LEFT_PAREN" -> "(" [] kind = "RIGHT_PAREN" -> ")"
      [] kind = "COLON" -> ":" [] kind = "EQUALS" -> "="
      [] kind = "DOUBLE_EQUALS" -> "==" [] kind = "NOT_EQUALS" -> "!="
      [] kind = "PLUS" -> "+" [] kind = "STAR" -> "*" [] kind = "SLASH" -> "/"
      [] kind = "MINUS" -> "-" [] kind = "LESS_THAN" -> "<"
      [] kind = "ARROW" -> "->" [] kind = "NEWLINE" -> "newline"
      [] kind = "INDENT" -> "indent" [] kind = "DEDENT" -> "dedent"
      [] kind = "INT" -> "int" [] kind = "FLOAT" -> "float"
      [] kind = "STR" -> "str" [] kind = "IF" -> "if" [] kind = "ELIF" -> "elif"
      [] kind = "ELSE" -> "else" [] kind = "AND" -> "and" [] kind = "OR" -> "or"
      [] kind = "IS" -> "is" [] kind = "NOT" -> "not" [] kind = "NONE" -> "None"
      [] kind = "PRINT" -> "print" [] kind = "DEF" -> "def"
      [] kind = "RETURN" -> "return" [] kind = "IDENTIFIER" -> "identifier"
      [] kind = "BOOL" -> "bool" [] kind = "COMMENT" -> "comment"
      [] kind = "EOF" -> "eof"

INDENT_SPACES == 4

Digits == {"0", "1", "2", "3", "4", "5", "6", "7", "8", "9"}

Letters ==
    { "a", "b", "c", "d", "e", "f", "g", "h", "i", "j", "k", "l", "m", "n",
      "o", "p", "q", "r", "s", "t", "u", "v", "w", "x", "y", "z",
      "A", "B", "C", "D", "E", "F", "G", "H", "I", "J", "K", "L", "M", "N",
      "O", "P", "Q", "R", "S", "T", "U", "V", "W", "X", "Y", "Z" }

isdigit(c) == c \in Digits

isalpha(c) == c \in Letters

DigitValue(c) ==
    CASE c = "0" -> 0 [] c = "1" -> 1 [] c = "2" -> 2 [] c = "3" -> 3
      [] c = "4" -> 4 [] c = "5" -> 5 [] c = "6" -> 6 [] c = "7" -> 7
      [] c = "8" -> 8 [] c = "9" -> 9

\* "".join(chars)
RECURSIVE Join(_)
Join(chars) == IF chars = <<>> THEN "" ELSE Head(chars) \o Join(Tail(chars))

\* source[a:b] for 0 <= a <= b <= len(source), as a sequence of characters
Slice(source, a, b) == SubSeq(source, a + 1, b)

\* int(text) of a digit run
RECURSIVE ParseInt(_)
ParseInt(chars) ==
    IF chars = <<>> THEN 0
    ELSE ParseInt(SubSeq(chars, 1, Len(chars) - 1)) * 10
         + DigitValue(chars[Len(chars)])

RECURSIVE Pow10(_)
Pow10(k) == IF k = 0 THEN 1 ELSE 10 * Pow10(k - 1)

\* float(text) of <digits>.<digits>
ParseFloat(chars) ==
    LET dot == CHOOSE i \in 1..Len(chars) : chars[i] = "."
        whole == SubSeq(chars, 1, dot - 1)
        frac == SubSeq(chars, dot + 1, Len(chars))
    IN  FloatV(ParseInt(whole \o frac), Pow10(Len(frac)))

\* str(k) of an integer
RECURSIVE NatStr(_)
NatStr(k) ==
    LET digit == CHOOSE c \in Digits : DigitValue(c) = k % 10
    IN  IF k < 10 THEN digit ELSE NatStr(k \div 10) \o digit

IntStr(k) == IF k < 0 THEN "-" \o NatStr(-k) ELSE NatStr(k)

\* the digits after the decimal point of rem/den, at most `left` of them
RECURSIVE FracStr(_, _, _)
FracStr(rem, den, left) ==
    IF rem = 0 \/ left = 0 THEN ""
    ELSE NatStr((rem * 10) \div den) \o FracStr((rem * 10) % den, den, left - 1)

FloatDigits == 16

\* str(x) of a float n/d
FloatStr(num, den) ==
    LET whole == Abs(num) \div den
        rem == Abs(num) % den
    IN  (IF num < 0 THEN "-" ELSE "") \o NatStr(whole) \o "."
        \o (IF rem = 0 THEN "0" ELSE FracStr(rem, den, FloatDigits))

\* str(value)
Str(v) ==
    CASE v.t = "str" -> v.s
      [] v.t = "int" -> IntStr(v.n)
      [] v.t = "bool" -> IF v.n = 1 THEN "True" ELSE "False"
      [] v.t = "float" -> FloatStr(v.n, v.d)
      [] v.t = "none" -> "None"

\* the items of a list as repr() joins them
RECURSIVE Items(_)
Items(strs) ==
    IF strs = <<>> THEN ""
    ELSE IF Len(strs) = 1 THEN strs[1]
    ELSE strs[1] \o ", " \o Items(Tail(strs))

print(t, line) == [t EXCEPT !.out = Append(@, line)]

\* repr(value) of a token's text or value; a newline is the one character
\* of the texts tokenized here that repr() escapes
repr(v) ==
    IF v.t # "str" THEN Str(v)
    ELSE IF v.s = "\n" THEN "'\\n'"
    ELSE "'" \o v.s \o "'"

\* the repr() that @dataclass gives Token
Token_repr(token) ==
    "Token(kind=<TokenKind." \o token.kind \o ": '" \o KindValue(token.kind)
    \o "'>, line=" \o NatStr(token.line) \o ", text=" \o repr(StrV(token.text))
    \o ", value=" \o repr(token.value) \o ")"

\* NewTokenizer without `if source[-1] != "\n": source += "\n"`
NewTokenizerAsGiven(text) ==
    [source |-> text, position |-> 0, start |-> 0, line |-> 1, tokens |-> <<>>,
     indent_stack |-> <<0>>, out |-> <<>>,
     err |-> IF text = <<>> THEN "IndexError" ELSE ""]

\* Tokenizer.__init__ ; source[-1] of an empty text raises IndexError
NewTokenizer(text) ==
    [source |-> IF text # <<>> /\ text[Len(text)] # "\n"
                THEN text \o <<"\n">> ELSE text,
     position |-> 0,
     start |-> 0,
     line |-> 1,
     tokens |-> <<>>,
     indent_stack |-> <<0>>,
     out |-> <<>>,
     err |-> IF text = <<>> THEN "IndexError" ELSE ""]

is_done(t) == t.position >= Len(t.source)

\* advance() moves the cursor; the caller reads the character with CharAt first
CharAt(t) == t.source[t.position + 1]

advance(t) ==
    IF is_done(t) THEN [t EXCEPT !.err = "IndexError"]
    ELSE [t EXCEPT !.position = @ + 1]

peek(t) == IF is_done(t) THEN "\\0" ELSE CharAt(t)

\* match(expected): TRUE and the cursor moves, or FALSE
match_ok(t, expected) == ~is_done(t) /\ CharAt(t) = expected

add_token(t, kind, value) ==
    [t EXCEPT !.tokens =
        Append(@, Token(kind, t.line,
                        Join(Slice(t.source, t.start, t.position)), value))]

\* the cursor after `while self.peek() <pred>: self.advance()`
RECURSIVE SkipWhile(_, _)
SkipWhile(t, chars) ==
    IF peek(t) \in chars THEN SkipWhile(advance(t), chars) ELSE t

\* the comment loop: up to, not including, the next newline
RECURSIVE SkipComment(_)
SkipComment(t) ==
    IF peek(t) # "\n" /\ ~is_done(t) THEN SkipComment(advance(t)) ELSE t

\* the string loop: `while self.peek() != '"': self.advance()`; at the end of
\* the text peek() is "\0" and advance() indexes past the end
RECURSIVE SkipString(_)
SkipString(t) ==
    IF t.err # "" THEN t
    ELSE IF peek(t) # "\"" THEN SkipString(advance(t)) ELSE t

LastKind(t) == t.tokens[Len(t.tokens)].kind

\* the DEDENT loop of whitespace()
RECURSIVE Dedent(_, _)

\* Dedent with `if` in place of `while`: one pop however far the line fell
DedentOnce(t, indent_level) ==
    IF indent_level < t.indent_stack[Len(t.indent_stack)]
    THEN add_token([t EXCEPT !.indent_stack = SubSeq(@, 1, Len(@) - 1)],
                   "DEDENT", NoneV)
    ELSE t

Dedent(t, indent_level) ==
    IF t.err # "" THEN t
    ELSE IF indent_level < t.indent_stack[Len(t.indent_stack)]
    THEN LET popped == add_token(
                 [t EXCEPT !.indent_stack = SubSeq(@, 1, Len(@) - 1)],
                 "DEDENT", NoneV)
         IN  IF popped.indent_stack = <<>>
             THEN [popped EXCEPT !.err = "IndexError"]
             ELSE Dedent(popped, indent_level)
    ELSE t

whitespace(t) ==
    LET sp == SkipWhile(t, {" "})
        spaces == sp.position - t.position
        indent_level == spaces \div INDENT_SPACES
        rem == spaces % INDENT_SPACES
        current_level == sp.indent_stack[Len(sp.indent_stack)]
    IN  IF peek(sp) = "\t" THEN [sp EXCEPT !.err = "Exception"]
        ELSE IF Len(sp.tokens) > 0 /\ LastKind(sp) # "NEWLINE" THEN sp
        ELSE IF rem # 0 THEN [sp EXCEPT !.err = "AssertionError"]
        ELSE IF indent_level > current_level
        THEN add_token([sp EXCEPT !.indent_stack = Append(@, indent_level)],
                       "INDENT", NoneV)
        ELSE IF indent_level < current_level THEN Dedent(sp, indent_level)
        ELSE sp

\* the top of one iteration of the loop of tokenize(), up to `if is_done()`
LineStart(t) ==
    LET t0 == [t EXCEPT !.start = t.position]
    IN  IF Len(t0.tokens) = 0 \/ LastKind(t0) = "NEWLINE"
        THEN LET w == whitespace(t0)
             IN  IF w.err # "" THEN w ELSE [w EXCEPT !.start = w.position]
        ELSE t0

\* the number branch
ScanNumber(t) ==
    LET ints == SkipWhile(t, Digits)
    IN  IF peek(ints) = "."
        THEN LET dot == advance(ints)
             IN  IF ~isdigit(peek(dot)) THEN [dot EXCEPT !.err = "Exception"]
                 ELSE LET fr == SkipWhile(dot, Digits)
                      IN  add_token(fr, "FLOAT",
                            ParseFloat(Slice(fr.source, fr.start, fr.position)))
        ELSE add_token(ints, "INT",
               IntV(ParseInt(Slice(ints.source, ints.start, ints.position))))

\* the identifier / keyword branch
ScanWord(t) ==
    LET w == SkipWhile(t, Letters \cup {"_"})
        text == Join(Slice(w.source, w.start, w.position))
        kind == KEYWORDS(text)
        value == IF text \in {"True", "False"} THEN BoolV(text = "True")
                 ELSE StrV(text)
    IN  add_token(w, kind, value)

\* the body of one iteration of the loop of tokenize(), from `c = advance()`
ScanToken(t0) ==
    LET c == CharAt(t0)
        t == advance(t0)
    IN  CASE c = "(" -> add_token(t, "LEFT_PAREN", NoneV)
          [] c = ")" -> add_token(t, "RIGHT_PAREN", NoneV)
          [] c = ":" -> add_token(t, "COLON", NoneV)
          [] c = "+" -> add_token(t, "PLUS", NoneV)
          [] c = "*" -> add_token(t, "STAR", NoneV)
          [] c = "/" -> add_token(t, "SLASH", NoneV)
          [] c = "<" -> add_token(t, "LESS_THAN", NoneV)
          [] c = "#" ->
                LET e == SkipComment(t)
                IN  add_token(e, "COMMENT",
                              StrV(Join(Slice(e.source, e.start, e.position))))
          [] c = "\n" ->
                [add_token(t, "NEWLINE", NoneV) EXCEPT !.line = @ + 1]
          [] c = " " -> t
          [] c = "-" ->
                IF match_ok(t, ">") THEN add_token(advance(t), "ARROW", NoneV)
                ELSE add_token(t, "MINUS", NoneV)
          [] c = "=" ->
                IF match_ok(t, "=")
                THEN add_token(advance(t), "DOUBLE_EQUALS", NoneV)
                ELSE add_token(t, "EQUALS", NoneV)
          [] c = "!" ->
                IF match_ok(t, "=")
                THEN add_token(advance(t), "NOT_EQUALS", NoneV)
                ELSE [t EXCEPT !.err = "Exception"]
          [] c = "\"" ->
                LET q == SkipString(t)
                    e == advance(q)
                IN  IF e.err # "" THEN e
                    ELSE add_token(e, "STR",
                           StrV(Join(Slice(e.source, e.start + 1,
                                           e.position - 1))))
          [] isdigit(c) -> ScanNumber(t)
          [] isalpha(c) \/ c = "_" -> ScanWord(t)
          [] OTHER ->
                [print(t, "line " \o NatStr(t.line) \o " ["
                          \o Items([i \in 1..Len(t.tokens) |->
                                       Token_repr(t.tokens[i])])
                          \o "]")
                 EXCEPT !.err = "Exception"]

\* the whole of tokenize(source), for the callers that use it in one step
RECURSIVE TokenizeLoop(_)
TokenizeLoop(t) ==
    LET s == LineStart(t)
    IN  IF s.err # "" THEN s
        ELSE IF is_done(s)
        THEN [s EXCEPT !.tokens = Append(@, Token("EOF", s.line, "", NoneV))]
        ELSE LET n == ScanToken(s)
             IN  IF n.err # "" THEN n ELSE TokenizeLoop(n)

tokenize(text) ==
    LET t == NewTokenizer(text)
    IN  IF t.err # "" THEN t ELSE TokenizeLoop(t)

(***************************************************************************)
(* parser.py: the syntax tree.  A name is kept as the identifier's text,   *)
(* an operator as the kind of its token.                                   *)
(***************************************************************************)
Literal(value) == [k |-> "Literal", value |-> value]
GroupingExpr(expr) == [k |-> "GroupingExpr", expr |-> expr]
BinaryExpr(left, op, right) ==
    [k |-> "BinaryExpr", left |-> left, op |-> op, right |-> right]
Var(name) == [k |-> "Var", name |-> name]
CallExpr(callee, arguments) ==
    [k |-> "CallExpr", callee |-> callee, arguments |-> arguments]
ExprStmt(expr) == [k |-> "ExprStmt", expr |-> expr]
PrintStmt(expr) == [k |-> "PrintStmt", expr |-> expr]
VarStmt(name, type_annotation, expr) ==
    [k |-> "VarStmt", name |-> name, type_annotation |-> type_annotation,
     expr |-> expr]
AssignStmt(name, value) == [k |-> "AssignStmt", name |-> name, value |-> value]
IfStmt(cond, if_branch, else_branch) ==
    [k |-> "IfStmt", cond |-> cond, if_branch |-> if_branch,
     else_branch |-> else_branch]
BlockStmt(stmts) == [k |-> "BlockStmt", stmts |-> stmts]
CommentStmt(comment) == [k |-> "CommentStmt", comment |-> comment]
FunctionStmt(name, params, return_type, body) ==
    [k |-> "FunctionStmt", name |-> name, params |-> params,
     return_type |-> return_type, body |-> body]
ReturnStmt(value) == [k |-> "ReturnStmt", value |-> value]
\* Python's None where a node is optional (else_branch, ReturnStmt.value)
NoNode == [k |-> "None"]

(***************************************************************************)
(* interpreter.py.  The operators thread a record m: the Interpreter's     *)
(* fields (values, functions, return_value), standard output (out), the    *)
(* pending exception (err), and the bookkeeping the properties are stated  *)
(* over: log (what happened, in order), evals (how many expressions have   *)
(* been evaluated), calls (how many calls have been started), frame (the   *)
(* call whose body is running, 0 at top level), depth (nesting of calls).  *)
(***************************************************************************)
EmptyDict == [n \in {} |-> NoneV]

Event(e, m) ==
    [e |-> e, frame |-> m.frame, id |-> 0, name |-> "", v |-> NoneV,
     pre |-> EmptyDict, post |-> EmptyDict, prefuns |-> {}, postfuns |-> {},
     evals0 |-> 0, evals1 |-> 0, err |-> "", node |-> NoNode]

Note(m, ev) == [m EXCEPT !.log = Append(@, ev)]

Raise(m, cls) == [m EXCEPT !.err = cls]

\* dict.get(name) is None: the name is absent or bound to None
GetIsNone(dict, name) == name \notin DOMAIN dict \/ dict[name] = NoneV

Put(dict, name, value) ==
    [n \in DOMAIN dict \cup {name} |-> IF n = name THEN value ELSE dict[n]]

IsNumber(v) == v.t \in {"int", "bool", "float"}

\* the result of int/bool/float arithmetic: a float as soon as one side is
Number(num, den, left, right) ==
    IF left.t = "float" \/ right.t = "float" THEN FloatV(num, den)
    ELSE IntV(num)

\* left == right
PyEq(left, right) ==
    IF IsNumber(left) /\ IsNumber(right)
    THEN left.n * right.d = right.n * left.d
    ELSE left.t = right.t /\ left.s = right.s

\* text * count
RECURSIVE Repeat(_, _)
Repeat(text, count) ==
    IF count <= 0 THEN "" ELSE text \o Repeat(text, count - 1)

\* BinaryOp without the conversion of both operands to str when one is a str:
\* Python's own operators on the two values as they are
BinaryOpUncoerced(kind, left, right) ==
    LET numbers == IsNumber(left) /\ IsNumber(right)
        strs == left.t = "str" /\ right.t = "str"
        Ok(v) == [v |-> v, err |-> ""]
        Fail(cls) == [v |-> NoneV, err |-> cls]
    IN  CASE kind = "PLUS" ->
               IF strs THEN Ok(StrV(left.s \o right.s))
               ELSE IF numbers
               THEN Ok(Number(left.n * right.d + right.n * left.d,
                              left.d * right.d, left, right))
               ELSE Fail("TypeError")
          [] kind = "MINUS" ->
               IF numbers
               THEN Ok(Number(left.n * right.d - right.n * left.d,
                              left.d * right.d, left, right))
               ELSE Fail("TypeError")
          [] kind = "STAR" ->
               IF numbers
               THEN Ok(Number(left.n * right.n, left.d * right.d, left, right))
               ELSE IF left.t = "str" /\ right.t \in {"int", "bool"}
               THEN Ok(StrV(Repeat(left.s, right.n)))
               ELSE IF right.t = "str" /\ left.t \in {"int", "bool"}
               THEN Ok(StrV(Repeat(right.s, left.n)))
               ELSE Fail("TypeError")
          [] kind = "SLASH" ->
               IF ~numbers THEN Fail("TypeError")
               ELSE IF right.n = 0 THEN Fail("ZeroDivisionError")
               ELSE Ok(FloatV((IF right.n < 0 THEN -1 ELSE 1) * left.n * right.d,
                              left.d * Abs(right.n)))
          [] kind = "DOUBLE_EQUALS" -> Ok(BoolV(PyEq(left, right)))
          [] kind = "NOT_EQUALS" -> Ok(BoolV(~PyEq(left, right)))
          [] OTHER ->
               IF "LESS" \notin TokenKind THEN Fail("AttributeError")
               ELSE Fail("NotImplementedError")

\* the operator dispatch of visit_binary_expr, operands already evaluated:
\* [v |-> result, err |-> exception class or ""]
BinaryOp(kind, left0, right0) ==
    LET coerce == left0.t = "str" \/ right0.t = "str"
        left == IF coerce THEN StrV(Str(left0)) ELSE left0
        right == IF coerce THEN StrV(Str(right0)) ELSE right0
        numbers == IsNumber(left) /\ IsNumber(right)
        Ok(v) == [v |-> v, err |-> ""]
        Fail(cls) == [v |-> NoneV, err |-> cls]
    IN  CASE kind = "PLUS" ->
               IF coerce THEN Ok(StrV(left.s \o right.s))
               ELSE IF numbers
               THEN Ok(Number(left.n * right.d + right.n * left.d,
                              left.d * right.d, left, right))
               ELSE Fail("TypeError")
          [] kind = "MINUS" ->
               IF numbers
               THEN Ok(Number(left.n * right.d - right.n * left.d,
                              left.d * right.d, left, right))
               ELSE Fail("TypeError")
          [] kind = "STAR" ->
               IF numbers
               THEN Ok(Number(left.n * right.n, left.d * right.d, left, right))
               ELSE Fail("TypeError")
          [] kind = "SLASH" ->
               IF ~numbers THEN Fail("TypeError")
               ELSE IF right.n = 0 THEN Fail("ZeroDivisionError")
               ELSE Ok(FloatV((IF right.n < 0 THEN -1 ELSE 1) * left.n * right.d,
                              left.d * Abs(right.n)))
          [] kind = "DOUBLE_EQUALS" -> Ok(BoolV(PyEq(left, right)))
          [] kind = "NOT_EQUALS" -> Ok(BoolV(~PyEq(left, right)))
          \* the next comparison reads TokenKind.LESS, which the enumeration
          \* does not have
          [] OTHER ->
               IF "LESS" \notin TokenKind THEN Fail("AttributeError")
               ELSE Fail("NotImplementedError")

\* bool(value), as `if` takes it
Truthy(v) ==
    CASE v.t = "none" -> FALSE
      [] v.t = "str" -> v.s # ""
      [] OTHER -> v.n # 0

RECURSIVE evaluate(_, _)
RECURSIVE execute(_, _)
RECURSIVE EvaluateAll(_, _, _)
RECURSIVE ExecuteAll(_, _)
RECURSIVE BindParams(_, _, _)

\* An evaluation hands back [m, v]: the record after it and the value.
\* The operators named ...Then take the outcome of the evaluation that
\* precedes them in the method and carry out the rest of the method.

\* [self.evaluate(arg) for arg in arguments]: [m, vs]
EvaluateAllThen(r, arguments, vs) ==
    IF r.m.err # "" THEN [m |-> r.m, vs |-> vs]
    ELSE EvaluateAll(r.m, Tail(arguments), Append(vs, r.v))

EvaluateAll(m, arguments, vs) ==
    IF arguments = <<>> THEN [m |-> m, vs |-> vs]
    ELSE EvaluateAllThen(evaluate(m, Head(arguments)), arguments, vs)

\* for stmt in stmts: self.execute(stmt)
ExecuteAll(m, stmts) ==
    IF stmts = <<>> \/ m.err # "" THEN m
    ELSE ExecuteAll(execute(m, Head(stmts)), Tail(stmts))

\* for (param_name, param_type), arg in zip(params, args)
BindParams(dict, params, args) ==
    IF params = <<>> \/ args = <<>> THEN dict
    ELSE BindParams(Put(dict, Head(params)[1], Head(args)),
                    Tail(params), Tail(args))

visit_literal(m, expr) == [m |-> m, v |-> expr.value]

visit_grouping_expr(m, expr) == evaluate(m, expr.expr)

BinaryResult(m, res) == [m |-> Raise(m, res.err), v |-> res.v]

BinaryRightThen(expr, l, r) ==
    IF r.m.err # "" THEN r
    ELSE BinaryResult(r.m, BinaryOp(expr.op, l.v, r.v))

BinaryLeftThen(expr, l) ==
    IF l.m.err # "" THEN l
    ELSE BinaryRightThen(expr, l, evaluate(l.m, expr.right))

visit_binary_expr(m, expr) ==
    BinaryLeftThen(expr, evaluate(m, expr.left))

visit_var(m, expr) ==
    IF GetIsNone(m.values, expr.name)
    THEN [m |-> Raise(m, "Exception"), v |-> NoneV]
    ELSE [m |-> m, v |-> m.values[expr.name]]

MaxDepth == 4

\* CallReturn without `self.values = previous_values`
CallReturnKeepFrame(ran, caller, function, id, entry) ==
    LET back == [ran EXCEPT !.frame = caller.frame, !.depth = caller.depth]
    IN  IF ran.err # "" THEN [m |-> ran, v |-> NoneV]
        ELSE [m |-> Note(back, [Event("returned", back) EXCEPT
                                   !.id = id,
                                   !.name = function.name,
                                   !.pre = entry.values,
                                   !.post = back.values,
                                   !.v = back.return_value]),
              v |-> back.return_value]

\* visit_call_expr from `self.values = previous_values` on; caller is the
\* record when the body was entered, entry the one when the call began
CallReturn(ran, caller, function, id, entry) ==
    LET back == [ran EXCEPT !.values = caller.values,
                            !.frame = caller.frame,
                            !.depth = caller.depth]
    IN  IF ran.err # "" THEN [m |-> ran, v |-> NoneV]
        ELSE [m |-> Note(back, [Event("returned", back) EXCEPT
                                   !.id = id,
                                   !.name = function.name,
                                   !.pre = entry.values,
                                   !.post = back.values,
                                   !.v = back.return_value]),
              v |-> back.return_value]

\* visit_call_expr from `previous_values = self.values.copy()` on
CallBody(m, function, args, id, entry) ==
    CallReturn(
        execute(Note([m EXCEPT !.values = BindParams(@, function.params, args),
                               !.return_value = NoneV,
                               !.frame = id,
                               !.depth = @ + 1],
                     [Event("body", m) EXCEPT !.id = id, !.frame = id]),
                function.body),
        m, function, id, entry)

\* a call refused by one of the two assertions of visit_call_expr
Rejected(at, why, id, entry) ==
    Note(Raise(at, "AssertionError"),
         [Event("rejected", at) EXCEPT
             !.id = id, !.name = why,
             !.pre = entry.values, !.post = at.values,
             !.prefuns = DOMAIN entry.functions,
             !.postfuns = DOMAIN at.functions,
             !.evals0 = entry.evals, !.evals1 = at.evals])

\* CallArgsThen without `assert len(args) == len(function.params)`
CallArgsThenUncounted(a, function, id, entry) ==
    IF a.m.err # "" THEN [m |-> a.m, v |-> NoneV]
    ELSE IF a.m.depth >= MaxDepth
    THEN [m |-> Raise(a.m, "RecursionError"), v |-> NoneV]
    ELSE CallBody(a.m, function, a.vs, id, entry)

CallArgsThen(a, function, id, entry) ==
    IF a.m.err # "" THEN [m |-> a.m, v |-> NoneV]
    ELSE IF Len(a.vs) # Len(function.params)
    THEN [m |-> Rejected(a.m, "arity", id, entry), v |-> NoneV]
    ELSE IF a.m.depth >= MaxDepth
    THEN [m |-> Raise(a.m, "RecursionError"), v |-> NoneV]
    ELSE CallBody(a.m, function, a.vs, id, entry)

CallStart(m, expr, id, entry) ==
    IF expr.callee \notin DOMAIN m.functions
    THEN [m |-> Rejected(m, "undefined", id, entry), v |-> NoneV]
    ELSE CallArgsThen(EvaluateAll(m, expr.arguments, <<>>),
                      m.functions[expr.callee], id, entry)

visit_call_expr(m, expr) ==
    CallStart(Note([m EXCEPT !.calls = @ + 1],
                   [Event("call", m) EXCEPT
                       !.id = m.calls + 1, !.name = expr.callee,
                       !.node = expr, !.prefuns = DOMAIN m.functions]),
              expr, m.calls + 1, m)

evaluate(m0, expr) ==
    CASE expr.k = "Literal" ->
            visit_literal([m0 EXCEPT !.evals = @ + 1], expr)
      [] expr.k = "GroupingExpr" ->
            visit_grouping_expr([m0 EXCEPT !.evals = @ + 1], expr)
      [] expr.k = "BinaryExpr" ->
            visit_binary_expr([m0 EXCEPT !.evals = @ + 1], expr)
      [] expr.k = "Var" ->
            visit_var([m0 EXCEPT !.evals = @ + 1], expr)
      [] expr.k = "CallExpr" ->
            visit_call_expr([m0 EXCEPT !.evals = @ + 1], expr)

visit_expr_stmt(m, stmt) == evaluate(m, stmt.expr).m

PrintThen(r) ==
    IF r.m.err # "" THEN r.m
    ELSE Note([r.m EXCEPT !.out = Append(@, Str(r.v))],
              [Event("print", r.m) EXCEPT !.v = r.v])

visit_print_stmt(m, stmt) == PrintThen(evaluate(m, stmt.expr))

\* what a declaration or an assignment did: m before it, at after it
Bound(e, stmt, m, at, v) ==
    [Event(e, m) EXCEPT
        !.name = stmt.name, !.node = stmt, !.v = v,
        !.pre = m.values, !.post = at.values,
        !.evals0 = m.evals, !.evals1 = at.evals, !.err = at.err]

\* self.values[name] = value, once the expression has been evaluated
BindThen(e, stmt, m, r) ==
    IF r.m.err # "" THEN Note(r.m, Bound(e, stmt, m, r.m, NoneV))
    ELSE Note([r.m EXCEPT !.values = Put(@, stmt.name, r.v)],
              Bound(e, stmt, m,
                    [r.m EXCEPT !.values = Put(@, stmt.name, r.v)], r.v))

\* raise Exception(...) before the expression is evaluated
BindRefused(e, stmt, m) ==
    Note(Raise(m, "Exception"),
         Bound(e, stmt, m, Raise(m, "Exception"), NoneV))

\* visit_var_stmt without the `if name in self.values` test
visit_var_stmt_rebinding(m, stmt) ==
    BindThen("declare", stmt, m, evaluate(m, stmt.expr))

visit_var_stmt(m, stmt) ==
    IF stmt.name \in DOMAIN m.values THEN BindRefused("declare", stmt, m)
    ELSE BindThen("declare", stmt, m, evaluate(m, stmt.expr))

visit_assign_stmt(m, stmt) ==
    IF GetIsNone(m.values, stmt.name) THEN BindRefused("assign", stmt, m)
    ELSE BindThen("assign", stmt, m, evaluate(m, stmt.value))

IfThen(c, stmt) ==
    IF c.m.err # "" THEN c.m
    ELSE IF Truthy(c.v) \/ stmt.else_branch # NoNode
    THEN execute(c.m, IF Truthy(c.v) THEN stmt.if_branch
                      ELSE stmt.else_branch)
    ELSE c.m

visit_if_stmt(m, stmt) == IfThen(evaluate(m, stmt.cond), stmt)

visit_block_stmt(m, stmt) == ExecuteAll(m, stmt.stmts)

visit_comment_stmt(m, stmt) == m

visit_function_stmt(m, stmt) ==
    IF stmt.name \in DOMAIN m.functions THEN Raise(m, "AssertionError")
    ELSE [m EXCEPT !.functions = Put(@, stmt.name, stmt)]

ReturnThen(r) ==
    IF r.m.err # "" THEN r.m
    ELSE Note([r.m EXCEPT !.return_value = r.v],
              [Event("return", r.m) EXCEPT !.v = r.v])

visit_return_stmt(m, stmt) ==
    ReturnThen(IF stmt.value # NoNode THEN evaluate(m, stmt.value)
               ELSE [m |-> m, v |-> NoneV])

Dispatch(m, stmt) ==
    CASE stmt.k = "ExprStmt" -> visit_expr_stmt(m, stmt)
      [] stmt.k = "PrintStmt" -> visit_print_stmt(m, stmt)
      [] stmt.k = "VarStmt" -> visit_var_stmt(m, stmt)
      [] stmt.k = "AssignStmt" -> visit_assign_stmt(m, stmt)
      [] stmt.k = "IfStmt" -> visit_if_stmt(m, stmt)
      [] stmt.k = "BlockStmt" -> visit_block_stmt(m, stmt)
      [] stmt.k = "CommentStmt" -> visit_comment_stmt(m, stmt)
      [] stmt.k = "FunctionStmt" -> visit_function_stmt(m, stmt)
      [] stmt.k = "ReturnStmt" -> visit_return_stmt(m, stmt)

execute(m, stmt) ==
    Dispatch(Note(m, [Event("execute", m) EXCEPT !.name = stmt.k]), stmt)

\* Interpreter.__init__
NewInterpreter ==
    [values |-> EmptyDict, functions |-> EmptyDict, return_value |-> NoneV]

\* the record the operators thread, for one top-level statement
Machine(i) ==
    [values |-> i.values, functions |-> i.functions,
     return_value |-> i.return_value, out |-> <<>>, err |-> "",
     log |-> <<>>, evals |-> 0, calls |-> 0, frame |-> 0, depth |-> 0]

(***************************************************************************)
(* parser.py: the Parser.  The operators thread a record p: the token list *)
(* and the cursor (tokens, position), the pending exception (err) and the  *)
(* tree the method called last has returned (node).  tokens[i] of the      *)
(* source is tokens[i + 1] here.                                           *)
(***************************************************************************)
NewParser(tokens) ==
    [tokens |-> tokens, position |-> 0, err |-> "", node |-> NoNode]

Parser_peek(p) == p.tokens[p.position + 1]

Parser_is_done(p) == Parser_peek(p).kind = "EOF"

check(p, kind) == ~Parser_is_done(p) /\ Parser_peek(p).kind = kind

\* advance(), where the caller has found that the cursor is not at EOF
Parser_advance(p) == [p EXCEPT !.position = @ + 1]

\* match(*kinds): TRUE and the cursor moves, or FALSE
Parser_match(p, kinds) == \E kind \in kinds : check(p, kind)

\* the method has returned `node`, unless an exception is on its way
Return(p, node) == IF p.err # "" THEN p ELSE [p EXCEPT !.node = node]

\* the method has returned `node` with the tree parsed last in its `field`
Fill(p, node, field) == Return(p, [node EXCEPT ![field] = p.node])

consume(p, kind) ==
    IF p.err # "" THEN p
    ELSE IF check(p, kind) THEN Parser_advance(p)
    ELSE Raise(p, "SyntaxError")

RECURSIVE consume_empty_lines(_)
consume_empty_lines(p) ==
    IF p.err = "" /\ Parser_match(p, {"NEWLINE"})
    THEN consume_empty_lines(Parser_advance(p))
    ELSE p

\* the kinds a type annotation is matched against
TypeKinds == {"INT", "FLOAT", "STR", "BOOL"}

RECURSIVE Parser_expr(_)
RECURSIVE factor(_)
RECURSIVE CallLoop(_)
RECURSIVE Arguments(_, _)
RECURSIVE FactorLoop(_)
RECURSIVE var_stmt(_)
RECURSIVE block_stmt(_)

primary(p) ==
    IF Parser_match(p, {"IDENTIFIER"})
    THEN Return(Parser_advance(p), Var(Parser_peek(p).value.s))
    ELSE IF Parser_match(p, {"LEFT_PAREN"})
    THEN Fill(consume(Parser_expr(Parser_advance(p)), "RIGHT_PAREN"),
              GroupingExpr(NoNode), "expr")
    ELSE IF Parser_match(p, {"INT", "FLOAT", "BOOL", "STR"})
    THEN Return(Parser_advance(p), Literal(Parser_peek(p).value))
    ELSE Raise(p, "Exception")

\* call_expr(), the arguments parsed: consume(RIGHT_PAREN), then
\* CallExpr(expr.name, arguments), where only a Var has a `name`
CallClose(a, callee) ==
    LET c == consume(a, "RIGHT_PAREN")
    IN  IF c.err # "" THEN c
        ELSE IF callee.k # "Var" THEN Raise(c, "AttributeError")
        ELSE CallLoop(Return(c, CallExpr(callee.name, a.node)))

\* the argument loop, after `self.expr()` has returned a: the test of the
\* loop reads TokenKind.COMMA
ArgumentThen(a, arguments) ==
    IF a.err # "" THEN a
    ELSE IF "COMMA" \notin TokenKind THEN Raise(a, "AttributeError")
    ELSE IF Parser_match(a, {"COMMA"})
    THEN Arguments(Parser_advance(a), Append(arguments, a.node))
    ELSE Return(a, Append(arguments, a.node))

Arguments(p, arguments) == ArgumentThen(Parser_expr(p), arguments)

\* the `while True` of call_expr(), e the expression so far
CallLoop(e) ==
    IF e.err # "" THEN e
    ELSE IF Parser_match(e, {"LEFT_PAREN"})
    THEN CallClose(IF check(Parser_advance(e), "RIGHT_PAREN")
                   THEN Return(Parser_advance(e), <<>>)
                   ELSE Arguments(Parser_advance(e), <<>>),
                   e.node)
    ELSE e

call_expr(p) == CallLoop(primary(p))

\* In the four loops that follow, `expr = BinaryExpr(expr, op, right)` puts
\* the operand parsed last to the right of the tree so far.

FactorLoop(e) ==
    IF e.err = "" /\ Parser_match(e, {"STAR", "SLASH"})
    THEN FactorLoop(Fill(factor(Parser_advance(e)),
                    BinaryExpr(e.node, Parser_peek(e).kind, NoNode), "right"))
    ELSE e

factor(p) == FactorLoop(call_expr(p))

RECURSIVE TermLoop(_)
TermLoop(e) ==
    IF e.err = "" /\ Parser_match(e, {"PLUS", "MINUS"})
    THEN TermLoop(Fill(factor(Parser_advance(e)),
                    BinaryExpr(e.node, Parser_peek(e).kind, NoNode), "right"))
    ELSE e

term(p) == TermLoop(factor(p))

\* the loop of comparison(): its test reads four names of TokenKind
RECURSIVE ComparisonLoop(_)
ComparisonLoop(e) ==
    LET kinds == {"GREATER", "GREATER_EQUALS", "LESS", "LESS_EQUALS"}
    IN  IF e.err # "" THEN e
        ELSE IF ~(kinds \subseteq TokenKind) THEN Raise(e, "AttributeError")
        ELSE IF Parser_match(e, kinds)
        THEN ComparisonLoop(Fill(term(Parser_advance(e)),
                        BinaryExpr(e.node, Parser_peek(e).kind, NoNode),
                        "right"))
        ELSE e

comparison(p) == ComparisonLoop(term(p))

RECURSIVE EqualityLoop(_)
EqualityLoop(e) ==
    IF e.err = "" /\ Parser_match(e, {"DOUBLE_EQUALS", "NOT_EQUALS"})
    THEN EqualityLoop(Fill(comparison(Parser_advance(e)),
                    BinaryExpr(e.node, Parser_peek(e).kind, NoNode), "right"))
    ELSE e

equality(p) == EqualityLoop(comparison(p))

Parser_expr(p) == equality(p)

\* each `if not self.match(kind): raise SyntaxError(...)` after the
\* expression is a consume(kind)
print_stmt(p) ==
    IF ~Parser_match(p, {"LEFT_PAREN"}) THEN Raise(p, "SyntaxError")
    ELSE Fill(consume(consume(Parser_expr(Parser_advance(p)), "RIGHT_PAREN"),
                      "NEWLINE"),
              PrintStmt(NoNode), "expr")

RECURSIVE Parser_stmt(_)

var_stmt(p) ==
    IF Parser_match(p, {"IDENTIFIER"})
    THEN LET q == Parser_advance(p)
             name == Parser_peek(p).value.s
             t == Parser_advance(q)
         IN  IF check(q, "EQUALS")
             THEN Fill(consume(Parser_expr(t), "NEWLINE"),
                       AssignStmt(name, NoNode), "value")
             ELSE IF check(q, "COLON")
             THEN IF ~Parser_match(t, TypeKinds) THEN Raise(t, "SyntaxError")
                  ELSE IF ~Parser_match(Parser_advance(t), {"EQUALS"})
                  THEN Raise(Parser_advance(t), "SyntaxError")
                  ELSE Fill(consume(Parser_expr(Parser_advance(
                                                    Parser_advance(t))),
                                    "NEWLINE"),
                            VarStmt(name, Parser_peek(t).text, NoNode), "expr")
             \* self.position -= 1
             ELSE Parser_stmt(p)
    ELSE Parser_stmt(p)

\* if_stmt(), after the if block has been parsed
IfBranch(cond, b) ==
    IF b.err # "" THEN b
    ELSE IF Parser_match(b, {"ELSE"})
    THEN Fill(block_stmt(consume(consume(Parser_advance(b), "COLON"),
                                 "NEWLINE")),
              IfStmt(cond, b.node, NoNode), "else_branch")
    ELSE Return(b, IfStmt(cond, b.node, NoNode))

\* if_stmt(), after `cond = self.expr()` has returned c
IfCond(c) ==
    IfBranch(c.node, block_stmt(consume(consume(c, "COLON"), "NEWLINE")))

if_stmt(p) == IfCond(Parser_expr(p))

expr_stmt(p) ==
    Fill(consume(Parser_expr(p), "NEWLINE"), ExprStmt(NoNode), "expr")

\* the statement loop of block_stmt(), `stmts` the statements so far
RECURSIVE BlockLoop(_, _)

BlockNext(s, stmts) ==
    IF s.err # "" THEN s
    ELSE BlockLoop(consume_empty_lines(s), Append(stmts, s.node))

BlockLoop(p, stmts) ==
    IF p.err # "" THEN p
    ELSE IF check(p, "DEDENT")
    THEN Return(consume_empty_lines(Parser_advance(p)), BlockStmt(stmts))
    ELSE BlockNext(var_stmt(p), stmts)

block_stmt(p) ==
    IF p.err # "" THEN p
    ELSE BlockLoop(consume(consume_empty_lines(p), "INDENT"), <<>>)

\* the parameter loop of function_stmt(): its exit test reads TokenKind.COMMA
RECURSIVE Params(_, _)
Params(p, params) ==
    LET n == consume(p, "IDENTIFIER")
        c == consume(n, "COLON")
        t == Parser_advance(c)
        added == Append(params, <<Parser_peek(p).value.s, Parser_peek(c).text>>)
    IN  IF c.err # "" THEN c
        ELSE IF ~Parser_match(c, TypeKinds) THEN Raise(c, "SyntaxError")
        ELSE IF "COMMA" \notin TokenKind THEN Raise(t, "AttributeError")
        ELSE IF Parser_match(t, {"COMMA"}) THEN Params(Parser_advance(t), added)
        ELSE Return(t, added)

\* function_stmt(), from consume(RIGHT_PAREN) on; ps.node is `params`
FunctionHead(name, ps) ==
    LET a == consume(consume(ps, "RIGHT_PAREN"), "ARROW")
    IN  IF a.err # "" THEN a
        ELSE IF ~Parser_match(a, TypeKinds) THEN Raise(a, "SyntaxError")
        ELSE Fill(block_stmt(consume(consume(Parser_advance(a), "COLON"),
                                     "NEWLINE")),
                  FunctionStmt(name, ps.node, Parser_peek(a).text, NoNode),
                  "body")

function_stmt(p) ==
    LET n == consume(p, "IDENTIFIER")
        l == consume(n, "LEFT_PAREN")
    IN  IF l.err # "" THEN l
        ELSE FunctionHead(Parser_peek(p).value.s,
                          IF check(l, "RIGHT_PAREN") THEN Return(l, <<>>)
                          ELSE Params(l, <<>>))

Parser_stmt(p) ==
    IF Parser_match(p, {"DEF"}) THEN function_stmt(Parser_advance(p))
    ELSE IF Parser_match(p, {"RETURN"})
    THEN Fill(consume(Parser_expr(Parser_advance(p)), "NEWLINE"),
              ReturnStmt(NoNode), "value")
    ELSE IF Parser_match(p, {"PRINT"}) THEN print_stmt(Parser_advance(p))
    ELSE IF Parser_match(p, {"IF"}) THEN if_stmt(Parser_advance(p))
    ELSE IF Parser_match(p, {"COMMENT"})
    THEN Return(consume(Parser_advance(p), "NEWLINE"),
                CommentStmt(Parser_peek(p).value.s))
    ELSE expr_stmt(p)

\* the loop of Parser.parse(), `stmts` the statements so far
RECURSIVE ParseLoop(_, _)

ParseNext(s, stmts) ==
    IF s.err # "" THEN s
    ELSE ParseLoop(consume_empty_lines(s), Append(stmts, s.node))

ParseLoop(p, stmts) ==
    IF Parser_is_done(p) THEN Return(p, stmts)
    ELSE ParseNext(var_stmt(p), stmts)

Parser_parse(p) == ParseLoop(consume_empty_lines(p), <<>>)

\* parse(source): the tokenizer's exception, or the parser after parse()
parse(source) ==
    LET t == tokenize(source)
    IN  IF t.err # "" THEN Raise(NewParser(<<>>), t.err)
        ELSE Parser_parse(NewParser(t.tokens))

(***************************************************************************)
(* Source texts: up to MaxLines lines, each an indentation followed by a   *)
(* body, the last one with or without its newline.                         *)
(***************************************************************************)
Spaces4 == <<" ", " ", " ", " ">>

Indents ==
    { <<>>, Spaces4, Spaces4 \o Spaces4, <<" ", " ">>, <<"\t">>,
      Spaces4 \o <<"\t">> }

Bodies == { <<>>, <<"a">> }

Lines == { i \o b \o <<"\n">> : i \in Indents, b \in Bodies }

RECURSIVE Texts(_)
Texts(k) ==
    IF k = 0 THEN { <<>> }
    ELSE LET shorter == Texts(k - 1)
         IN  shorter \cup { s \o l : s \in shorter, l \in Lines }

\* the texts of up to k lines, and each of them less its final newline
Sources(k) ==
    Texts(k) \cup { SubSeq(s, 1, Len(s) - 1) : s \in Texts(k) \ { <<>> } }

(***************************************************************************)
(* tokenize(source) as a state machine: construction, then one step per    *)
(* iteration of the loop of Tokenizer.tokenize.                            *)
(***************************************************************************)
IdleTokenizer ==
    [source |-> <<>>, position |-> 0, start |-> 0, line |-> 1,
     tokens |-> <<>>, indent_stack |-> <<0>>, out |-> <<>>, err |-> ""]

\* the state before an entry point is called on one of `inputs`
Start(inputs, at) ==
    /\ input \in inputs
    /\ tokenizer = IdleTokenizer
    /\ interp = NewInterpreter
    /\ output = <<>>
    /\ history = <<>>
    /\ executed = 0
    /\ pc = at
    /\ error = ""
    /\ parser = NewParser(<<>>)
    /\ result = NoneV

\* tokenizer = Tokenizer(source)
TokenizerInit ==
    /\ pc = "start"
    /\ LET t == NewTokenizer(input)
       IN  /\ tokenizer' = t
           /\ pc' = IF t.err # "" THEN "raised" ELSE "tokenize"
           /\ error' = t.err
    /\ UNCHANGED <<input, interp, output, history, executed, parser, result>>

\* one iteration that consumes a character
TokenizeScan ==
    /\ pc = "tokenize"
    /\ LET s == LineStart(tokenizer)
       IN  /\ s.err = ""
           /\ ~is_done(s)
           /\ ScanToken(s).err = ""
           /\ tokenizer' = ScanToken(s)
    /\ UNCHANGED <<input, interp, output, history, executed, pc, error, parser,
                   result>>

\* the iteration that finds the text exhausted: break, append EOF, return
TokenizeBreak ==
    /\ pc = "tokenize"
    /\ LET s == LineStart(tokenizer)
       IN  /\ s.err = ""
           /\ is_done(s)
           /\ tokenizer' =
                [s EXCEPT !.tokens = Append(@, Token("EOF", s.line, "", NoneV))]
    /\ pc' = "tokens"
    /\ UNCHANGED <<input, interp, output, history, executed, error, parser,
                   result>>

\* an iteration that raises, in whitespace() or in the character dispatch
TokenizeRaise ==
    /\ pc = "tokenize"
    /\ LET s == LineStart(tokenizer)
           r == IF s.err # "" THEN s ELSE ScanToken(s)
       IN  /\ s.err # "" \/ (~is_done(s) /\ ScanToken(s).err # "")
           /\ tokenizer' = r
           /\ output' = r.out
           /\ error' = r.err
    /\ pc' = "raised"
    /\ UNCHANGED <<input, interp, history, executed, parser, result>>

NextTok == TokenizerInit \/ TokenizeScan \/ TokenizeBreak \/ TokenizeRaise

SpecTok == Start(Sources(MaxLines), "start") /\ [][NextTok]_vars

(***************************************************************************)
(* Interpreter.interpret(stmts) as a state machine: one step per top-level *)
(* statement, the statements drawn from a fixed set of syntax trees.       *)
(***************************************************************************)
Num(k) == Literal(IntV(k))

\* def inc(a: int) -> int:
\*     return a + 1
DefInc ==
    FunctionStmt("inc", << <<"a", "int">> >>, "int",
        BlockStmt(<< ReturnStmt(BinaryExpr(Var("a"), "PLUS", Num(1))) >>))

\* def scope(x: int) -> int:
\*     x = x + 1
\*     t: int = x
\*     y = t
\*     return y
DefScope ==
    FunctionStmt("scope", << <<"x", "int">> >>, "int",
        BlockStmt(<< AssignStmt("x", BinaryExpr(Var("x"), "PLUS", Num(1))),
                     VarStmt("t", "int", Var("x")),
                     AssignStmt("y", Var("t")),
                     ReturnStmt(Var("y")) >>))

\* def early(a: int) -> int:
\*     if a == 0:
\*         return 0
\*         print(7)
\*     print(8)
\*     return 1
DefEarly ==
    FunctionStmt("early", << <<"a", "int">> >>, "int",
        BlockStmt(<< IfStmt(BinaryExpr(Var("a"), "DOUBLE_EQUALS", Num(0)),
                            BlockStmt(<< ReturnStmt(Num(0)),
                                         PrintStmt(Num(7)) >>),
                            NoNode),
                     PrintStmt(Num(8)),
                     ReturnStmt(Num(1)) >>))

\* def rec(a: int) -> int:
\*     if a == 0:
\*         return 0
\*     else:
\*         return rec(a - 1)
DefRec ==
    FunctionStmt("rec", << <<"a", "int">> >>, "int",
        BlockStmt(<< IfStmt(BinaryExpr(Var("a"), "DOUBLE_EQUALS", Num(0)),
                            BlockStmt(<< ReturnStmt(Num(0)) >>),
                            BlockStmt(<< ReturnStmt(
                                CallExpr("rec", << BinaryExpr(Var("a"), "MINUS",
                                                              Num(1)) >>)) >>))
                  >>))

\* def noret() -> int:
\*     # nothing
DefNoret ==
    FunctionStmt("noret", <<>>, "int",
        BlockStmt(<< CommentStmt("# nothing") >>))

\* def mk() -> int:
\*     def inc(a: int) -> int:
\*         return a + 1
\*     return 1
DefMk ==
    FunctionStmt("mk", <<>>, "int", BlockStmt(<< DefInc, ReturnStmt(Num(1)) >>))

\* def wrap(a: int) -> int:
\*     inc(a)
DefWrap ==
    FunctionStmt("wrap", << <<"a", "int">> >>, "int",
        BlockStmt(<< ExprStmt(CallExpr("inc", << Var("a") >>)) >>))

Program ==
    { DefInc, DefScope, DefEarly, DefRec, DefNoret, DefMk, DefWrap,
      \* x: int = 1               x: int = noret()
      VarStmt("x", "int", Num(1)),
      VarStmt("x", "int", CallExpr("noret", <<>>)),
      \* y: int = inc(x)
      VarStmt("y", "int", CallExpr("inc", << Var("x") >>)),
      \* x = 2                    y = scope(x)
      AssignStmt("x", Num(2)),
      AssignStmt("y", CallExpr("scope", << Var("x") >>)),
      \* scope(x)    rec(x)    inc()    nope()    noret(mk())
      ExprStmt(CallExpr("scope", << Var("x") >>)),
      ExprStmt(CallExpr("rec", << Var("x") >>)),
      ExprStmt(CallExpr("inc", <<>>)),
      ExprStmt(CallExpr("nope", <<>>)),
      ExprStmt(CallExpr("noret", << CallExpr("mk", <<>>) >>)),
      \* print(wrap(1))
      PrintStmt(CallExpr("wrap", << Num(1) >>)),
      \* print(early(0))          print(early(x))
      PrintStmt(CallExpr("early", << Num(0) >>)),
      PrintStmt(CallExpr("early", << Var("x") >>)),
      \* if x == 1:
      \*     x = 2
      \* else:
      \*     print(x)
      IfStmt(BinaryExpr(Var("x"), "DOUBLE_EQUALS", Num(1)),
             BlockStmt(<< AssignStmt("x", Num(2)) >>),
             BlockStmt(<< PrintStmt(Var("x")) >>)) }

\* the Interpreter and standard output once execution has come back with m;
\* `on` is where the entry point goes on from if nothing was raised
Executed(m, on) ==
    /\ interp' = [values |-> m.values, functions |-> m.functions,
                  return_value |-> m.return_value]
    /\ output' = output \o m.out
    /\ history' = m.log
    /\ error' = m.err
    /\ pc' = IF m.err # "" THEN "raised" ELSE on

\* one iteration of the loop of interpret(): self.execute(stmt)
Interpret ==
    /\ pc = "interpret"
    /\ executed < MaxStmts
    /\ \E stmt \in Program :
          Executed(execute(Machine(interp), stmt), "interpret")
    /\ executed' = executed + 1
    /\ UNCHANGED <<input, tokenizer, parser, result>>

NextInterp == Interpret

SpecInterp == Start({<<>>}, "interpret") /\ [][NextInterp]_vars

(***************************************************************************)
(* Interpreter.evaluate(expr) as a state machine, on one binary expression *)
(* over two literals: every operator the tokenizer has a token for, every  *)
(* type of value a literal can have.                                       *)
(***************************************************************************)
Samples ==
    { IntV(0), IntV(1), IntV(2), FloatV(1, 2), FloatV(1, 1), BoolV(TRUE),
      BoolV(FALSE), StrV("1"), StrV("a"), StrV("") }

BinaryKinds ==
    { "PLUS", "MINUS", "STAR", "SLASH", "DOUBLE_EQUALS", "NOT_EQUALS",
      "LESS_THAN" }

\* the evaluation of expr has come back with r = [m, v]
Evaluated(expr, r) ==
    /\ result' = r.v
    /\ error' = r.m.err
    /\ history' = << [Event("evaluate", r.m) EXCEPT
                         !.node = expr, !.v = r.v, !.err = r.m.err] >>
    /\ pc' = IF r.m.err # "" THEN "raised" ELSE "returned"

\* value = interpreter.evaluate(BinaryExpr(Literal(l), op, Literal(r)))
EvaluateBinary ==
    /\ pc = "evaluate"
    /\ \E l \in Samples, r \in Samples, kind \in BinaryKinds :
          Evaluated(BinaryExpr(Literal(l), kind, Literal(r)),
                    evaluate(Machine(interp),
                             BinaryExpr(Literal(l), kind, Literal(r))))
    /\ UNCHANGED <<input, tokenizer, interp, output, executed, parser>>

NextBinary == EvaluateBinary

SpecBinary == Start({<<>>}, "evaluate") /\ [][NextBinary]_vars

(***************************************************************************)
(* parser.py: the Evaluator and evaluate(source).  An evaluation hands     *)
(* back [v, err].                                                          *)
(***************************************************************************)
\* Evaluator.visit_binary_expr, the operands evaluated to l and r: Python's
\* own + - * / on the two values, None for any other operator
Evaluator_binary(kind, l, r) ==
    LET strs == { x \in {l, r} : x.v.t = "str" }
        nones == { x \in {l, r} : x.v.t = "none" }
        Ok(v) == [v |-> v, err |-> ""]
        Fail_(cls) == [v |-> NoneV, err |-> cls]
    IN  IF l.err # "" THEN l
        ELSE IF r.err # "" THEN r
        ELSE IF kind \notin {"PLUS", "MINUS", "STAR", "SLASH"} THEN Ok(NoneV)
        ELSE IF nones # {} THEN Fail_("TypeError")
        ELSE IF strs = {} THEN BinaryOp(kind, l.v, r.v)
        ELSE IF kind = "PLUS" /\ l.v.t = "str" /\ r.v.t = "str"
        THEN Ok(StrV(l.v.s \o r.v.s))
        ELSE IF kind = "STAR" /\ l.v.t = "str" /\ r.v.t \in {"int", "bool"}
        THEN Ok(StrV(Repeat(l.v.s, r.v.n)))
        ELSE IF kind = "STAR" /\ r.v.t = "str" /\ l.v.t \in {"int", "bool"}
        THEN Ok(StrV(Repeat(r.v.s, l.v.n)))
        ELSE Fail_("TypeError")

\* Evaluator.evaluate; the visit methods Evaluator does not override are
\* Visitor's, which raise NotImplementedError
RECURSIVE Evaluator_evaluate(_)
Evaluator_evaluate(e) ==
    CASE e.k = "Literal" -> [v |-> e.value, err |-> ""]
      [] e.k = "GroupingExpr" -> Evaluator_evaluate(e.expr)
      [] e.k = "BinaryExpr" ->
            Evaluator_binary(e.op, Evaluator_evaluate(e.left),
                             Evaluator_evaluate(e.right))
      [] OTHER -> [v |-> NoneV, err |-> "NotImplementedError"]

(***************************************************************************)
(* evaluate(source) as a state machine, over arithmetic texts: chains of   *)
(* up to MaxOps operators over integer literals, and a parenthesised pair  *)
(* on either side of one more operator.                                    *)
(***************************************************************************)
MaxOps == 2

Operands == { <<"2">>, <<"3">>, <<"1", "0">> }

Operators == { <<"+">>, <<"-">>, <<"*">>, <<"/">>, <<" ", "+", " ">> }

RECURSIVE Chains(_)
Chains(k) ==
    IF k = 0 THEN Operands
    ELSE Chains(k - 1)
           \cup { c \o o \o a : c \in Chains(k - 1), o \in Operators,
                                a \in Operands }

Groups == { <<"(">> \o c \o <<")">> : c \in Chains(1) \ Operands }

Expressions(k) ==
    Chains(k) \cup Groups
        \cup { g \o o \o a : g \in Groups, o \in Operators, a \in Operands }
        \cup { a \o o \o g : g \in Groups, o \in Operators, a \in Operands }

\* evaluate(source), after tokenize() has returned t: the parser, and [v, err]
EvaluateTokens(t) ==
    LET p == IF t.err # "" THEN Raise(NewParser(<<>>), t.err)
             ELSE Parser_expr(NewParser(t.tokens))
    IN  [parser |-> p,
         out |-> IF p.err # "" THEN [v |-> NoneV, err |-> p.err]
                 ELSE Evaluator_evaluate(p.node)]

\* result = evaluate(source)
Evaluate ==
    /\ pc = "start"
    /\ tokenizer' = tokenize(input)
    /\ output' = tokenize(input).out
    /\ LET r == EvaluateTokens(tokenize(input))
       IN  /\ parser' = r.parser
           /\ result' = r.out.v
           /\ error' = r.out.err
           /\ pc' = IF r.out.err # "" THEN "raised" ELSE "returned"
    /\ UNCHANGED <<input, interp, history, executed>>

NextEval == Evaluate

SpecEval == Start(Expressions(MaxOps), "start") /\ [][NextEval]_vars

(***************************************************************************)
(* Parser(tokenize(source)).term() as a state machine: the additive level   *)
(* of the grammar and the levels below it, called on the same arithmetic   *)
(* texts without the parenthesised ones.                                   *)
(***************************************************************************)
\* parser = Parser(tokens) ; parser.term()
ParseTerm ==
    /\ pc = "start"
    /\ tokenizer' = tokenize(input)
    /\ parser' = term(NewParser(tokenize(input).tokens))
    /\ error' = term(NewParser(tokenize(input).tokens)).err
    /\ pc' = IF term(NewParser(tokenize(input).tokens)).err # "" THEN "raised"
             ELSE "returned"
    /\ UNCHANGED <<input, interp, output, history, executed, result>>

NextTerm == ParseTerm

SpecTerm == Start(Chains(MaxOps), "start") /\ [][NextTerm]_vars

(***************************************************************************)
(* interpret(source) of interpreter.py as a state machine: parse(source),  *)
(* then Interpreter().interpret(stmts).                                    *)
(***************************************************************************)
MaxInt == 6

\* the decimal digits of k
RECURSIVE Numeral(_)
Numeral(k) ==
    LET digit == CHOOSE c \in Digits : DigitValue(c) = k % 10
    IN  IF k < 10 THEN <<digit>> ELSE Append(Numeral(k \div 10), digit)

\* def add(a: int, b: int) -> int:
\*     return a + b
\* print(add(x, y))
ScenarioD(x, y) ==
    << "d", "e", "f", " ", "a", "d", "d", "(", "a", ":", " ", "i", "n", "t",
       ",", " ", "b", ":", " ", "i", "n", "t", ")", " ", "-", ">", " ", "i",
       "n", "t", ":", "\n" >>
    \o Spaces4 \o << "r", "e", "t", "u", "r", "n", " ", "a", " ", "+", " ",
                     "b", "\n" >>
    \o << "p", "r", "i", "n", "t", "(", "a", "d", "d", "(" >> \o Numeral(x)
    \o << ",", " " >> \o Numeral(y) \o << ")", ")" >>

\* if a < b:
\*     print(1)
\* else:
\*     print(0)
ScenarioB(a, b) ==
    << "i", "f", " " >> \o Numeral(a) \o << " ", "<", " " >> \o Numeral(b)
    \o << ":", "\n" >>
    \o Spaces4 \o << "p", "r", "i", "n", "t", "(", "1", ")", "\n" >>
    \o << "e", "l", "s", "e", ":", "\n" >>
    \o Spaces4 \o << "p", "r", "i", "n", "t", "(", "0", ")" >>

\* # c
CommentLine == << "#", " ", "c", "\n" >>

\* def f() -> int:
DefHead ==
    << "d", "e", "f", " ", "f", "(", ")", " ", "-", ">", " ", "i", "n", "t",
       ":", "\n" >>

\* def f() -> int:
\*     # c
DefLines == DefHead \o Spaces4 \o CommentLine

\* return        return 1
ReturnLine(value) == << "r", "e", "t", "u", "r", "n" >> \o value \o << "\n" >>

ReturnValues == { <<>>, << " ", "1" >> }

\* what a return statement is put under: nothing, or def f() -> int:
ReturnHeads == { <<>>, DefHead \o Spaces4 }

\* what follows the name that opens an expression statement: nothing, + 1, (1)
NameTails == { <<>>, << " ", "+", " ", "1" >>, << "(", "1", ")" >> }

Programs ==
    { ScenarioD(x, y) : x \in 0..MaxInt, y \in 0..MaxInt }
        \cup { ScenarioB(a, b) : a \in 0..MaxInt, b \in 0..MaxInt }
        \cup { h \o t : h \in {CommentLine, DefLines},
                        t \in {<<>>, CommentLine, DefLines} }
        \cup { h \o ReturnLine(v) : h \in ReturnHeads, v \in ReturnValues }
        \cup { << "a" >> \o t \o << "\n" >> : t \in NameTails }

\* stmts = parse(source)
SourceParse ==
    /\ pc = "start"
    /\ tokenizer' = tokenize(input)
    /\ output' = tokenize(input).out
    /\ parser' = parse(input)
    /\ error' = parse(input).err
    /\ pc' = IF parse(input).err # "" THEN "raised" ELSE "parsed"
    /\ UNCHANGED <<input, interp, history, executed, result>>

\* interpreter = Interpreter() ; interpreter.interpret(stmts)
SourceInterpret ==
    /\ pc = "parsed"
    /\ Executed(ExecuteAll(Machine(NewInterpreter), parser.node), "done")
    /\ executed' = Len(parser.node)
    /\ UNCHANGED <<input, tokenizer, parser, result>>

NextSource == SourceParse \/ SourceInterpret

SpecSource == Start(Programs, "start") /\ [][NextSource]_vars

(***************************************************************************)
(* __init__.py: run(source), on the package's own Tokenizer.  Its record   *)
(* is the other Tokenizer's plus out, the lines printed so far; a token's  *)
(* kind is the value of the TokenKind member.                              *)
(***************************************************************************)
run_KEYWORDS(text) ==
    IF text \in {"int", "if", "else", "def", "return"} THEN text
    ELSE "identifier"

\* Token.__repr__: KEYWORDS has the keyword texts for keys
run_Token_repr(token) ==
    IF token.value # NoneV
         /\ ~(token.value.t = "str" /\ run_KEYWORDS(token.value.s) # "identifier")
    THEN token.kind \o " " \o Str(token.value)
    ELSE token.kind

\* Tokenizer.__init__ ; source[0] of an empty text raises IndexError
run_Tokenizer(text) ==
    [source |-> text, position |-> 0, start |-> 0, line |-> 1,
     tokens |-> <<>>, indent_stack |-> <<0>>, out |-> <<>>,
     err |-> IF text = <<>> THEN "IndexError" ELSE ""]

\* the DEDENT loop of whitespace()
RECURSIVE run_Dedent(_, _)
run_Dedent(t, indent_level) ==
    IF indent_level < t.indent_stack[Len(t.indent_stack)]
    THEN run_Dedent(add_token(
                        [t EXCEPT !.indent_stack = SubSeq(@, 1, Len(@) - 1)],
                        "dedent", NoneV),
                    indent_level)
    ELSE t

run_whitespace(t) ==
    LET sp == SkipWhile(t, {" "})
        spaces == sp.position - t.position
        indent_level == spaces \div INDENT_SPACES
        rem == spaces % INDENT_SPACES
        current_level == sp.indent_stack[Len(sp.indent_stack)]
        said == print(sp, "indent_level=" \o NatStr(indent_level)
                          \o " current_level=" \o NatStr(current_level)
                          \o " ["
                          \o Items([i \in 1..Len(sp.indent_stack) |->
                                       NatStr(sp.indent_stack[i])])
                          \o "]")
    IN  IF peek(sp) = "\t" THEN [sp EXCEPT !.err = "Exception"]
        ELSE IF Len(sp.tokens) > 0 /\ LastKind(sp) # "newline" THEN sp
        ELSE IF rem # 0 THEN [sp EXCEPT !.err = "AssertionError"]
        ELSE IF indent_level > current_level
        THEN add_token([said EXCEPT !.indent_stack = Append(@, indent_level)],
                       "indent", NoneV)
        ELSE IF indent_level < current_level
        THEN run_Dedent(said, indent_level)
        ELSE said

\* one iteration of the loop of tokenize(), from `c = self.advance()`
run_ScanToken(t0) ==
    LET c == CharAt(t0)
        t == advance(t0)
        digits == SkipWhile(t, Digits)
        word == SkipWhile(t, Letters \cup {"_"})
        text == Join(Slice(word.source, word.start, word.position))
    IN  CASE c = "(" -> add_token(t, "(", NoneV)
          [] c = ")" -> add_token(t, ")", NoneV)
          [] c = ":" -> add_token(t, ":", NoneV)
          [] c = "+" -> add_token(t, "+", NoneV)
          [] c = "<" -> add_token(t, "<", NoneV)
          [] c = "\n" -> [add_token(t, "newline", NoneV) EXCEPT !.line = @ + 1]
          [] c = " " -> t
          [] c = "-" ->
                IF match_ok(t, ">") THEN add_token(advance(t), "->", NoneV)
                ELSE add_token(t, "-", NoneV)
          [] isdigit(c) ->
                add_token(digits, "int",
                    IntV(ParseInt(Slice(digits.source, digits.start,
                                        digits.position))))
          [] isalpha(c) \/ c = "_" ->
                add_token(print(word, run_KEYWORDS(text) \o " " \o text),
                          run_KEYWORDS(text), StrV(text))
          [] OTHER ->
                [print(t, "line " \o NatStr(t.line) \o " ["
                          \o Items([i \in 1..Len(t.tokens) |->
                                       run_Token_repr(t.tokens[i])])
                          \o "]")
                 EXCEPT !.err = "Exception"]

\* one iteration of the loop of tokenize()
run_Iteration(t) ==
    LET t0 == [t EXCEPT !.start = t.position]
        w == run_whitespace(t0)
    IN  IF Len(t0.tokens) = 0 \/ LastKind(t0) = "newline"
        THEN IF w.err # "" THEN w
             ELSE IF peek(w) = "\n" THEN [advance(w) EXCEPT !.line = @ + 1]
             \* the cursor sits at the end of the text: advance() raises
             ELSE IF is_done(w) THEN advance(w)
             ELSE run_ScanToken([w EXCEPT !.start = w.position])
        ELSE run_ScanToken(t0)

(***************************************************************************)
(* run(source) as a state machine: construction, one step per iteration of *)
(* the loop of tokenize(), then the loop that prints the tokens.           *)
(***************************************************************************)
\* tokenizer = Tokenizer(source)
RunTokenizer ==
    /\ pc = "start"
    /\ tokenizer' = run_Tokenizer(input)
    /\ error' = run_Tokenizer(input).err
    /\ pc' = IF run_Tokenizer(input).err # "" THEN "raised" ELSE "tokenize"
    /\ UNCHANGED <<input, interp, output, history, executed, parser, result>>

\* an iteration that ends normally
RunIteration ==
    /\ pc = "tokenize"
    /\ ~is_done(tokenizer)
    /\ run_Iteration(tokenizer).err = ""
    /\ tokenizer' = run_Iteration(tokenizer)
    /\ output' = run_Iteration(tokenizer).out
    /\ UNCHANGED <<input, interp, history, executed, pc, error, parser, result>>

\* an iteration that raises
RunRaise ==
    /\ pc = "tokenize"
    /\ ~is_done(tokenizer)
    /\ run_Iteration(tokenizer).err # ""
    /\ tokenizer' = run_Iteration(tokenizer)
    /\ output' = run_Iteration(tokenizer).out
    /\ error' = run_Iteration(tokenizer).err
    /\ pc' = "raised"
    /\ UNCHANGED <<input, interp, history, executed, parser, result>>

\* the loop ends: tokenize() appends EOF and returns the tokens
RunReturn ==
    /\ pc = "tokenize"
    /\ is_done(tokenizer)
    /\ tokenizer' = [tokenizer EXCEPT !.tokens =
                        Append(@, Token("eof", tokenizer.line, "", NoneV))]
    /\ pc' = "tokens"
    /\ UNCHANGED <<input, interp, output, history, executed, error, parser,
                   result>>

\* for token in tokens: print(token)
RunPrint ==
    /\ pc = "tokens"
    /\ output' = output \o [i \in 1..Len(tokenizer.tokens) |->
                               run_Token_repr(tokenizer.tokens[i])]
    /\ pc' = "done"
    /\ UNCHANGED <<input, tokenizer, interp, history, executed, error, parser,
                   result>>

NextRun == RunTokenizer \/ RunIteration \/ RunRaise \/ RunReturn \/ RunPrint

SpecRun == Start(Sources(MaxLines), "start") /\ [][NextRun]_vars

(***************************************************************************)
(* Properties                                                              *)
(***************************************************************************)
Tokens == tokenizer.tokens

Count(toks, kind) == Cardinality({ i \in 1..Len(toks) : toks[i].kind = kind })

\* INDENT tokens so far minus DEDENT tokens so far, after k tokens
Balance(toks, k) ==
    Count(SubSeq(toks, 1, k), "INDENT") - Count(SubSeq(toks, 1, k), "DEDENT")

\* C1: in the tokens produced, INDENTs minus DEDENTs is never negative at any
\* prefix, and once tokenize has returned it is zero at the EOF token.
C1_IndentBalance ==
    /\ \A k \in 0..Len(Tokens) : Balance(Tokens, k) >= 0
    /\ pc = "tokens" =>
          /\ Tokens[Len(Tokens)].kind = "EOF"
          /\ Balance(Tokens, Len(Tokens)) = 0

\* two blocks still open at the last line, both closed before EOF
C1_Witness ==
    /\ pc = "tokens"
    /\ Len(Tokens) >= 3
    /\ Tokens[Len(Tokens) - 1].kind = "DEDENT"
    /\ Tokens[Len(Tokens) - 2].kind = "DEDENT"

Events(e) == { i \in DOMAIN history : history[i].e = e }

\* C2: whenever a call has returned normally, the variable bindings are the
\* bindings there were immediately before the call.
C2_CallRestoresBindings ==
    \A i \in Events("returned") : history[i].post = history[i].pre

\* a call of scope(x) has returned: its parameter shadowed the caller's x, its
\* body assigned x and y and declared t
C2_Witness ==
    \E i \in Events("returned") :
        /\ history[i].name = "scope"
        /\ {"x", "y"} \subseteq DOMAIN history[i].pre

\* C3: once a return statement has executed in a function body, no further
\* statement of that body executes before the call returns.
C3_ReturnAbortsBody ==
    \A i \in Events("return") : \A j \in Events("execute") :
        (history[i].frame # 0 /\ i < j) => history[j].frame # history[i].frame

Declared(i) == history[i].name \in DOMAIN history[i].pre

\* C4 as stated: a declaration fails exactly when the name is bound (the
\* initializer is then not evaluated, the bindings unchanged); otherwise it
\* succeeds and binds the name to the initializer's value, nothing else.
C4_DeclareFailsOnlyIfBound ==
    \A i \in Events("declare") :
        /\ history[i].err # "" <=> Declared(i)
        /\ Declared(i) =>
              /\ history[i].evals1 = history[i].evals0
              /\ history[i].post = history[i].pre
        /\ ~Declared(i) =>
              history[i].post = Put(history[i].pre, history[i].name,
                                    history[i].v)

\* C4 as amended: a declaration of a bound name fails, the initializer not
\* evaluated and the bindings unchanged; a declaration of an unbound name
\* evaluates the initializer and, unless that evaluation fails, binds the
\* name to its value and changes no other binding.
C4_DeclareBindsOrFails ==
    \A i \in Events("declare") :
        /\ Declared(i) =>
              /\ history[i].err # ""
              /\ history[i].evals1 = history[i].evals0
              /\ history[i].post = history[i].pre
        /\ ~Declared(i) => history[i].evals1 > history[i].evals0
        /\ (~Declared(i) /\ history[i].err = "") =>
              /\ history[i].post = Put(history[i].pre, history[i].name,
                                       history[i].v)
              /\ history[i].node.expr.k = "Literal" =>
                    history[i].post[history[i].name]
                        = history[i].node.expr.value

\* a declaration of a name that was already bound has been refused
C4_Witness ==
    \E i \in Events("declare") : Declared(i) /\ history[i].err # ""

\* C5: an assignment fails exactly when the name is not bound; to a name that
\* a declaration or a parameter bound, whatever it holds (None included), it
\* goes on to evaluate the expression and rebinds the name to its value.
C5_AssignNeedsOnlyBinding ==
    \A i \in Events("assign") :
        /\ ~Declared(i) =>
              /\ history[i].err # ""
              /\ history[i].post = history[i].pre
        /\ Declared(i) => history[i].evals1 > history[i].evals0
        /\ (Declared(i) /\ history[i].err = "") =>
              history[i].post = Put(history[i].pre, history[i].name,
                                    history[i].v)

\* the calls that visit_call_expr is to refuse: callee unknown when the call
\* began, or as many arguments as the callee has no parameters for
UnknownCallee(i) == history[i].name \notin history[i].prefuns

WrongCount(i) ==
    /\ ~UnknownCallee(i)
    /\ Len(history[i].node.arguments)
          # Len(interp.functions[history[i].name].params)

BodyRan(id) ==
    \E j \in DOMAIN history :
        \/ history[j].e = "body" /\ history[j].id = id
        \/ history[j].e = "execute" /\ history[j].frame = id

\* C6 as stated: a call of an unknown function or with the wrong number of
\* arguments fails, no statement of a body is executed for it, and bindings
\* and function table are what they were before the call.
C6_RefusedCallChangesNothing ==
    \A i \in Events("call") :
        (UnknownCallee(i) \/ WrongCount(i)) =>
            /\ error # ""
            /\ ~BodyRan(history[i].id)
            /\ \A r \in Events("rejected") :
                  history[r].id = history[i].id =>
                      /\ history[r].post = history[r].pre
                      /\ history[r].postfuns = history[r].prefuns

\* C6 as amended: such a call fails and no statement of the called function's
\* body is executed for it; an unknown callee is refused before anything is
\* evaluated; a wrong count is refused after the arguments are evaluated, the
\* bindings then as before the call and the function table as before the call
\* plus whatever the calls inside the arguments registered.
C6_RefusedCallRunsNoBody ==
    \A i \in Events("call") :
        (UnknownCallee(i) \/ WrongCount(i)) =>
            /\ error # ""
            /\ ~BodyRan(history[i].id)
            /\ \A r \in Events("rejected") :
                  history[r].id = history[i].id =>
                      /\ history[r].post = history[r].pre
                      /\ history[r].prefuns \subseteq history[r].postfuns
                      /\ UnknownCallee(i) =>
                            /\ history[r].postfuns = history[r].prefuns
                            /\ history[r].evals1 = history[r].evals0

\* a call with one argument too many has been refused after the call in its
\* argument ran and returned
C6_Witness ==
    \E r \in Events("rejected") : \E j \in Events("returned") :
        /\ history[r].name = "arity"
        /\ j < r
        /\ error = "AssertionError"

\* the tokens of an expression text: all but the closing NEWLINE and EOF
ExprTokens(text) ==
    LET toks == tokenize(text).tokens
    IN  SubSeq(toks, 1, Len(toks) - 2)

\* the positions of the operators of `kinds` that no parenthesis encloses
TopLevel(toks, kinds) ==
    { i \in 1..Len(toks) :
        /\ toks[i].kind \in kinds
        /\ Count(SubSeq(toks, 1, i), "LEFT_PAREN")
             = Count(SubSeq(toks, 1, i), "RIGHT_PAREN") }

Last(S) == CHOOSE i \in S : \A j \in S : j <= i

\* native arithmetic on an expression's tokens, as [v, err]: the last
\* additive operator outside parentheses is applied last; failing one, the
\* last multiplicative operator; failing both, the text is a literal or a
\* parenthesised expression
RECURSIVE Native(_)
Native(toks) ==
    LET additive == TopLevel(toks, {"PLUS", "MINUS"})
        multiplicative == TopLevel(toks, {"STAR", "SLASH"})
        Apply(i) ==
            Evaluator_binary(toks[i].kind, Native(SubSeq(toks, 1, i - 1)),
                             Native(SubSeq(toks, i + 1, Len(toks))))
    IN  IF additive # {} THEN Apply(Last(additive))
        ELSE IF multiplicative # {} THEN Apply(Last(multiplicative))
        ELSE IF toks[1].kind = "LEFT_PAREN"
        THEN Native(SubSeq(toks, 2, Len(toks) - 1))
        ELSE [v |-> toks[1].value, err |-> ""]

\* C7: once evaluate(source) has ended on an expression of integer literals,
\* + - * / and parentheses, it has returned the value native arithmetic gives
\* the text (multiplicative operators first, each level left to right,
\* parentheses overriding both), and raised only where native arithmetic does.
C7_EvaluateIsNative ==
    pc \in {"returned", "raised"} =>
        LET native == Native(ExprTokens(input))
        IN  /\ error = native.err
            /\ error = "" => result.t = native.v.t /\ PyEq(result, native.v)

Terminal == pc \in {"done", "raised"}

\* C8: a program that defines add(a, b) returning a + b and prints add(x, y)
\* runs to its end without an exception and prints the sum, and only that.
C8_ScenarioDPrintsSum ==
    \A x, y \in 0..MaxInt :
        input = ScenarioD(x, y) /\ Terminal =>
            pc = "done" /\ output = << NatStr(x + y) >>

\* C9: an if/else program on a < b runs to its end having executed exactly
\* one branch: it prints 1 and not 0 when a < b, 0 and not 1 otherwise.
C9_IfElseRunsOneBranch ==
    \A a, b \in 0..MaxInt :
        input = ScenarioB(a, b) /\ Terminal =>
            pc = "done" /\ output = << IF a < b THEN "1" ELSE "0" >>

\* a tab among the blanks that open some line of the text
LeadingTab(text) ==
    \E i \in 1..Len(text) :
        /\ text[i] = "\t"
        /\ \A j \in 1..(i - 1) :
              (\A k \in j..(i - 1) : text[k] # "\n") => text[j] \in {" ", "\t"}

\* C10: run(source) of a text with a tab in the leading whitespace of some
\* line never has tokenize() return the tokens and never prints anything.
C10_TabFailsSilently ==
    LeadingTab(input) => pc \notin {"tokens", "done"} /\ output = <<>>

\* the bindings of dict `before` are all in `after`, each with its value
Kept(before, after) ==
    \A n \in DOMAIN before : n \in DOMAIN after /\ after[n] = before[n]

\* C11: interpret() executes no statement once one has failed, and when a
\* top-level statement fails every binding and every function registration
\* there was before it is still there, unchanged.
C11_FailureKeepsEarlierEffects ==
    [][/\ pc # "raised"
       /\ error' # "" =>
             /\ Kept(interp.values, interp'.values)
             /\ Kept(interp.functions, interp'.functions)]_vars

EndsLine(text) == text # <<>> /\ text[Len(text)] = "\n"

\* C12: once tokenize has returned, the tokens hold one EOF token, the last
\* one, and the token before it is a NEWLINE or a DEDENT; a text that does not
\* end with a newline has the tokens of the same text with a newline appended.
C12_OneEofAfterClosedLine ==
    pc = "tokens" =>
        /\ Count(Tokens, "EOF") = 1
        /\ Tokens[Len(Tokens)].kind = "EOF"
        /\ Len(Tokens) >= 2
        /\ Tokens[Len(Tokens) - 1].kind \in {"NEWLINE", "DEDENT"}
        /\ ~EndsLine(input) => Tokens = tokenize(input \o <<"\n">>).tokens

\* tokenize has returned on a text whose last line, indented, has no newline
C12_Witness ==
    /\ pc = "tokens"
    /\ ~EndsLine(input)
    /\ Count(Tokens, "IDENTIFIER") >= 1
    /\ Tokens[Len(Tokens) - 1].kind = "DEDENT"

\* the loop of tokenize() is about to open a line
LineOpens ==
    pc = "tokenize" /\ (Len(Tokens) = 0 \/ LastKind(tokenizer) = "NEWLINE")

\* the spaces the line about to be opened starts with
LeadingSpaces == SkipWhile(tokenizer, {" "}).position - tokenizer.position

Stack == tokenizer.indent_stack

\* the line about to be opened starts, with whole indentation steps and no
\* tab, at a level below the top of the indentation stack
LineFalls ==
    /\ LineOpens
    /\ LeadingSpaces % INDENT_SPACES = 0
    /\ peek(SkipWhile(tokenizer, {" "})) # "\t"
    /\ LeadingSpaces \div INDENT_SPACES < Stack[Len(Stack)]

\* C13: a line that starts below the top of the indentation stack pops the
\* stack down to its own level, one DEDENT token per pop, when that level is
\* on the stack; when it is not, tokenize raises and returns no tokens.
C13_DedentToKnownLevel ==
    [][LineFalls =>
          LET level == LeadingSpaces \div INDENT_SPACES
              after == tokenizer'.indent_stack
              pops == Len(Stack) - Len(after)
          IN  IF \E i \in DOMAIN Stack : Stack[i] = level
              THEN /\ after = SubSeq(Stack, 1, Len(after))
                   /\ after[Len(after)] = level
                   /\ Len(tokenizer'.tokens) >= Len(Tokens) + pops
                   /\ \A i \in 1..pops :
                         tokenizer'.tokens[Len(Tokens) + i].kind = "DEDENT"
              ELSE /\ pc' = "raised"
                   /\ error' # ""]_vars

\* the line about to be opened has nothing but spaces before its newline
BlankLine == LineOpens /\ peek(SkipWhile(tokenizer, {" "})) = "\n"

\* C14: the iteration that opens a line of nothing but spaces adds no token
\* (no NEWLINE, INDENT or DEDENT) and leaves the indentation stack as it was.
C14_BlankLineSwallowed ==
    [][BlankLine =>
          /\ tokenizer'.tokens = Tokens
          /\ tokenizer'.indent_stack = Stack]_vars

\* the precedence level of a binary operator
Level(kind) ==
    CASE kind \in {"DOUBLE_EQUALS", "NOT_EQUALS"} -> 1
      [] kind \in {"GREATER", "GREATER_EQUALS", "LESS", "LESS_EQUALS"} -> 2
      [] kind \in {"PLUS", "MINUS"} -> 3
      [] kind \in {"STAR", "SLASH"} -> 4
      [] OTHER -> 0

\* C15: Parser.term() on the tokens a op1 b op2 c, op1 and op2 of one level
\* (both of + -, or both of * /), returns Binary(Binary(a, op1, b), op2, c).
C15_LevelsAssociateLeft ==
    LET toks == ExprTokens(input)
    IN  (/\ pc \in {"returned", "raised"}
         /\ Len(toks) = 5
         /\ Level(toks[2].kind) = Level(toks[4].kind)) =>
            /\ error = ""
            /\ parser.node =
                 BinaryExpr(BinaryExpr(Literal(toks[1].value), toks[2].kind,
                                       Literal(toks[3].value)),
                            toks[4].kind, Literal(toks[5].value))

\* the tree of a return statement whose text after `return` is `value`
Returned(value) ==
    ReturnStmt(IF value = <<>> THEN NoNode ELSE Literal(IntV(1)))

\* C16: parse() of `return` and of `return 1`, at top level and as the body of
\* a function, returns the Return statement, with no value and with the
\* literal; interpreting the bare `return` leaves no value in return_value.
C16_ReturnValueOptional ==
    \A h \in ReturnHeads, v \in ReturnValues :
        (input = h \o ReturnLine(v) /\ pc # "start") =>
            /\ pc # "raised"
            /\ parser.node =
                 IF h = <<>> THEN << Returned(v) >>
                 ELSE << FunctionStmt("f", <<>>, "int",
                                      BlockStmt(<< Returned(v) >>)) >>
            /\ (pc = "done" /\ h = <<>> /\ v = <<>>) =>
                  interp.return_value = NoneV

\* C17: evaluating a binary expression with - * or / raises, and yields no
\* value, whenever an operand is a string, whatever the other operand is; no
\* evaluation with - * / yields a string.
C17_StringArithmeticFails ==
    \A i \in Events("evaluate") :
        LET e == history[i].node
        IN  e.op \in {"MINUS", "STAR", "SLASH"} =>
              /\ "str" \in {e.left.value.t, e.right.value.t} =>
                    /\ history[i].err # ""
                    /\ pc = "raised"
                    /\ result = NoneV
              /\ history[i].err = "" => history[i].v.t # "str"

\* a string times an integer has been evaluated, and has raised
C17_Witness ==
    \E i \in Events("evaluate") :
        /\ history[i].node.op = "STAR"
        /\ history[i].node.left.value.t = "str"
        /\ history[i].node.right.value.t = "int"
        /\ error = "TypeError"

\* C18: evaluating a binary expression with == or != yields the boolean that
\* Python's comparison of the two operand values gives, neither of them
\* converted (a string never equals a number); with < on two numbers it yields
\* whether the left one is the smaller.
C18_ComparesValuesAsTheyAre ==
    \A i \in Events("evaluate") :
        LET e == history[i].node
            l == e.left.value
            r == e.right.value
        IN  /\ e.op = "DOUBLE_EQUALS" =>
                  history[i].err = "" /\ history[i].v = BoolV(PyEq(l, r))
            /\ e.op = "NOT_EQUALS" =>
                  history[i].err = "" /\ history[i].v = BoolV(~PyEq(l, r))
            /\ (e.op = "LESS_THAN" /\ IsNumber(l) /\ IsNumber(r)) =>
                  /\ history[i].err = ""
                  /\ history[i].v = BoolV(l.n * r.d < r.n * l.d)

\* the expression that the name a and what follows it make
Named(tail) ==
    CASE tail = <<>> -> Var("a")
      [] tail = << " ", "+", " ", "1" >> ->
            BinaryExpr(Var("a"), "PLUS", Literal(IntV(1)))
      [] tail = << "(", "1", ")" >> -> CallExpr("a", << Literal(IntV(1)) >>)

\* C19: parse() of a statement that opens with a name followed by neither =
\* nor : returns the expression statement that starts with that name, every
\* token consumed once (the cursor ends on EOF); the cursor is never negative.
C19_NameOpensExpression ==
    /\ parser.position >= 0
    /\ \A tail \in NameTails :
          (input = << "a" >> \o tail \o << "\n" >> /\ pc # "start") =>
              /\ pc # "raised"
              /\ parser.node = << ExprStmt(Named(tail)) >>
              /\ parser.position = Len(Tokens) - 1

\* the return statements executed in the body of call `id` before event i
ReturnsOf(id, i) ==
    { j \in Events("return") : history[j].frame = id /\ j < i }

\* C20: a call that has returned has yielded the value of a return statement
\* executed in its own body, and None when its body executed none, whatever
\* the calls nested in the body returned.
C20_CallYieldsOwnReturn ==
    \A i \in Events("returned") :
        IF ReturnsOf(history[i].id, i) = {} THEN history[i].v = NoneV
        ELSE \E j \in ReturnsOf(history[i].id, i) : history[i].v = history[j].v

\* the calls in log h whose body was entered and that have not returned
OpenCalls(h) ==
    { h[i].id : i \in { k \in DOMAIN h : h[k].e = "body" } }
        \ { h[j].id : j \in { k \in DOMAIN h : h[k].e = "returned" } }

\* C21: when a top-level statement fails while the body of a call it made is
\* executing (in that body or in a call nested in it), the bindings after the
\* failure are the bindings there were before the call: nothing the callee
\* bound, declared or assigned is left.
C21_FailedCallRestoresBindings ==
    [][(error' # "" /\ OpenCalls(history') # {}) =>
          interp'.values = interp.values]_vars
====
